---- MODULE Spec2Model ----
(***************************************************************************)
(* Model of the upload gateway in src/r2_uploader.js: the three POST       *)
(* handlers /generate-upload-url, /generate-download-url and /upload, the  *)
(* staging of the multipart file by the HTTP layer, and the collaborators  *)
(* they call (the signer, the store's put-object, the file system).        *)
(* A handler runs without interruption up to its await; the continuation   *)
(* after the await is a second step.  Handlers of different requests       *)
(* interleave at these steps.                                              *)
(***************************************************************************)
EXTENDS Integers, Sequences, FiniteSets, TLC

\* ---- bounds of the model ----
NumReqs == 2
MaxClock == 1

Reqs == 1..NumReqs

\* ---- filenames ----
\* A UTF-16 code unit that is a surrogate without its pair; JSON bodies and
\* multipart headers can carry one.
LoneSurrogate == "\\uD800"
\* the filenames requests carry: one with a reserved character, one that is
\* not well-formed UTF-16
FileNames == {<<"a", " ", "b">>, <<LoneSurrogate>>}
\* values of a filename field that is present
Names == FileNames \cup {<<>>}

\* a JSON field that is absent from the body, as opposed to present and empty
Undefined == [present |-> FALSE, val |-> <<>>]
Str(s) == [present |-> TRUE, val |-> s]

Absent == "<absent>"

\* ---- configuration (process.env), read-only after startup ----
Endpoint == "https://r2.endpoint"
Bucket == "bucket"
DefaultPublicUrl == "https://cdn.atulyaayurveda.shop"
ExpiresIn == "3600"
\* "" stands for an unset (or empty) R2_PUBLIC_URL
PublicUrlEnvs == {"", "https://pub.example"}
ContentTypes == {Undefined, Str(<<"text/plain">>)}
MimeTypes == {"text/plain"}

\* ---- error messages of the collaborators ----
SignMessages == {"", "sign failed"}
PutMessages == {"", "put failed"}
ReadMessage == "EACCES: read"
UnlinkMessage == "EPERM: unlink"
NotFoundMessage == "Uploaded file not found on disk"
URIErrorMessage == "URI malformed"

VARIABLES
    env,      \* process.env.R2_PUBLIC_URL
    clock,    \* the latest second the signer has read from the wall clock
    req,      \* req[r]: the parsed request (endpoint, body, file)
    pc,       \* pc[r]: position of the handler of request r
    disk,     \* requests whose TemporaryFile exists under uploads/
    log,      \* log[r]: collaborator calls and results of r, in program order
    signed,   \* signed[r]: clock value the signer used for r (-1: none)
    thrown,   \* thrown[r]: messages of the errors thrown in r's handler, in order
    resps     \* resps[r]: responses sent for r, in order

vars == <<env, clock, req, pc, disk, log, signed, thrown, resps>>

\* ---- pure helpers ----

\* variant: filename === undefined
FalsyOnlyUndefined(v) == ~v.present

\* !filename
Falsy(v) == ~v.present \/ v.val = <<>>

\* one character of encodeURIComponent
EncodeChar(c) ==
    CASE c = " " -> "%20"
      [] c = "/" -> "%2F"
      [] OTHER -> c

\* encodeURIComponent throws URIError on a lone surrogate
EncodeThrows(s) == \E i \in 1..Len(s) : s[i] = LoneSurrogate

\* variant: the filename is appended unencoded
encodeURIComponentRaw(s) == s

encodeURIComponent(s) == [i \in 1..Len(s) |-> EncodeChar(s[i])]

\* process.env.R2_PUBLIC_URL || 'https://cdn.atulyaayurveda.shop'
BaseUrl(e) == IF e = "" THEN DefaultPublicUrl ELSE e

\* `${baseUrl}/${encodedFilename}`
PublicUrl(e, name) == <<BaseUrl(e), "/">> \o encodeURIComponent(name)

\* err.message || fallback
ErrorText(msg, fallback) == IF msg = "" THEN fallback ELSE msg

\* The URL getSignedUrl returns: query-string signing of (method, bucket,
\* key) with the credentials, the signing time and the expiry.  The
\* content type is not part of the signed query.
PresignedUrl(method, key, t) ==
    <<Endpoint, "/", Bucket, "/">> \o key \o
    <<"?x-id=", method, "&X-Amz-Date=", ToString(t), "&X-Amz-Expires=", ExpiresIn>>

EmptyBody ==
    [success |-> Absent, error |-> Absent, presignedUrl |-> <<>>,
     publicUrl |-> <<>>, video_url |-> <<>>, filename |-> <<>>,
     thumbnail_url |-> Absent, duration |-> Absent, message |-> Absent]

\* res.status(400).json({ error: ... })
BadRequest(msg) == [status |-> 400, body |-> [EmptyBody EXCEPT !.error = msg]]

\* res.status(500).json({ success: false, error: err.message || fallback })
ServerError(msg, fallback) ==
    [status |-> 500,
     body |-> [EmptyBody EXCEPT !.success = "false", !.error = ErrorText(msg, fallback)]]

\* variant: the two URLs are assigned to each other's field
UploadUrlOkSwapped(presigned, public, name) ==
    [status |-> 200,
     body |-> [EmptyBody EXCEPT !.success = "true", !.presignedUrl = public,
                                !.publicUrl = presigned, !.filename = name,
                                !.message = "Presigned URL generated successfully"]]

UploadUrlOk(presigned, public, name) ==
    [status |-> 200,
     body |-> [EmptyBody EXCEPT !.success = "true", !.presignedUrl = presigned,
                                !.publicUrl = public, !.filename = name,
                                !.message = "Presigned URL generated successfully"]]

DownloadUrlOk(presigned, name) ==
    [status |-> 200,
     body |-> [EmptyBody EXCEPT !.success = "true", !.presignedUrl = presigned,
                                !.filename = name,
                                !.message = "Download URL generated successfully"]]

UploadOk(public) ==
    [status |-> 200,
     body |-> [EmptyBody EXCEPT !.success = "true", !.video_url = public,
                                !.thumbnail_url = "", !.duration = "",
                                !.message = "Video uploaded successfully"]]

NoFile == [present |-> FALSE, originalname |-> <<>>, mimetype |-> ""]
NoReq == [ep |-> "none", filename |-> Undefined, contentType |-> Undefined, file |-> NoFile]

Init ==
    /\ env \in PublicUrlEnvs
    /\ clock = 0
    /\ req = [r \in Reqs |-> NoReq]
    /\ pc = [r \in Reqs |-> "idle"]
    /\ disk = {}
    /\ log = [r \in Reqs |-> <<>>]
    /\ signed = [r \in Reqs |-> -1]
    /\ thrown = [r \in Reqs |-> <<>>]
    /\ resps = [r \in Reqs |-> <<>>]

\* The signer reads the wall clock, which never runs backwards: now is the
\* second it reads.
ReadClock(r, now) ==
    /\ now \in clock..MaxClock
    /\ clock' = now
    /\ signed' = [signed EXCEPT ![r] = now]

\* express.json() parses the body of a request to one of the URL endpoints.
\* contentType (or its default 'application/octet-stream') only becomes the
\* ContentType of the command that is signed; no response depends on it.
ReceiveJson(r) ==
    /\ pc[r] = "idle"
    /\ \E ep \in {"generate-upload-url", "generate-download-url"},
          fn \in {Undefined} \cup {Str(s) : s \in Names},
          ct \in ContentTypes :
          /\ ep = "generate-download-url" => ct = Undefined
          /\ req' = [req EXCEPT ![r] = [NoReq EXCEPT !.ep = ep, !.filename = fn, !.contentType = ct]]
    /\ pc' = [pc EXCEPT ![r] = "received"]
    /\ UNCHANGED <<env, clock, disk, log, signed, thrown, resps>>

Send(r, response) == resps' = [resps EXCEPT ![r] = Append(@, response)]
Logged(r, events) == log' = [log EXCEPT ![r] = @ \o events]
Threw(r, msgs) == thrown' = [thrown EXCEPT ![r] = @ \o msgs]
Goto(r, label) == pc' = [pc EXCEPT ![r] = label]

\* multer's upload.single('file') stages the multipart file under uploads/
\* and sets req.file; a request without the field has no req.file.  The
\* staged file may be gone by the time the handler looks for it.
ReceiveMultipart(r) ==
    /\ pc[r] = "idle"
    /\ \E hasFile \in BOOLEAN, name \in FileNames, mime \in MimeTypes, staged \in BOOLEAN :
          IF hasFile
          THEN /\ req' = [req EXCEPT ![r] = [NoReq EXCEPT !.ep = "upload",
                              !.file = [present |-> TRUE, originalname |-> name, mimetype |-> mime]]]
               /\ disk' = IF staged THEN disk \cup {r} ELSE disk
          ELSE /\ req' = [req EXCEPT ![r] = [NoReq EXCEPT !.ep = "upload"]]
               /\ UNCHANGED disk
    /\ Goto(r, "received")
    /\ UNCHANGED <<env, clock, log, signed, thrown, resps>>

\* variant: the 400 is sent without the return
FilenameCheckNoReturn(r, call, label) ==
    /\ IF Falsy(req[r].filename)
       THEN Send(r, BadRequest("Filename is required"))
       ELSE UNCHANGED resps
    /\ Logged(r, <<call>>)
    /\ Goto(r, label)

\* if (!filename) return res.status(400)...; otherwise the signing call is
\* issued and the handler awaits it
FilenameCheck(r, call, label) ==
    IF Falsy(req[r].filename)
    THEN /\ Send(r, BadRequest("Filename is required"))
         /\ Goto(r, "done")
         /\ UNCHANGED log
    ELSE /\ Logged(r, <<call>>)
         /\ Goto(r, label)
         /\ UNCHANGED resps

\* app.post('/generate-upload-url'), up to the await
GenerateUploadUrl(r) ==
    /\ pc[r] = "received"
    /\ req[r].ep = "generate-upload-url"
    /\ FilenameCheck(r, "sign", "signing")
    /\ UNCHANGED <<env, clock, req, disk, signed, thrown>>

\* variant: a failed signing call is issued once more before giving up
SignFailedRetry(r, msg, fallback) ==
    IF Cardinality({i \in DOMAIN log[r] : log[r][i] = "sign"}) < 2
    THEN /\ Logged(r, <<"signErr", "sign">>)
         /\ Threw(r, <<msg>>)
         /\ UNCHANGED <<pc, resps, clock, signed>>
    ELSE /\ Logged(r, <<"signErr">>)
         /\ Threw(r, <<msg>>)
         /\ Send(r, ServerError(msg, fallback))
         /\ Goto(r, "done")
         /\ UNCHANGED <<clock, signed>>

\* catch (err) of the URL handlers: the failure is answered at once
SignFailed(r, msg, fallback) ==
    /\ Logged(r, <<"signErr">>)
    /\ Threw(r, <<msg>>)
    /\ Send(r, ServerError(msg, fallback))
    /\ Goto(r, "done")
    /\ UNCHANGED <<clock, signed>>

\* app.post('/generate-upload-url'), from the await on
GenerateUploadUrlResume(r) ==
    /\ pc[r] = "signing"
    /\ req[r].ep = "generate-upload-url"
    /\ LET name == req[r].filename.val
           fallback == "Failed to generate presigned URL"
       IN  \/ \E msg \in SignMessages : SignFailed(r, msg, fallback)
           \/ \E now \in 0..MaxClock :
                 /\ ReadClock(r, now)
                 /\ Logged(r, <<"signOk">>)
                 /\ Goto(r, "done")
                 /\ IF EncodeThrows(name)
                    THEN /\ Threw(r, <<URIErrorMessage>>)
                         /\ Send(r, ServerError(URIErrorMessage, fallback))
                    ELSE /\ Send(r, UploadUrlOk(PresignedUrl("PutObject", name, now),
                                                PublicUrl(env, name), name))
                         /\ UNCHANGED thrown
    /\ UNCHANGED <<env, req, disk>>

\* app.post('/generate-download-url'), up to the await
GenerateDownloadUrl(r) ==
    /\ pc[r] = "received"
    /\ req[r].ep = "generate-download-url"
    /\ FilenameCheck(r, "sign", "signing")
    /\ UNCHANGED <<env, clock, req, disk, signed, thrown>>

\* app.post('/generate-download-url'), from the await on
GenerateDownloadUrlResume(r) ==
    /\ pc[r] = "signing"
    /\ req[r].ep = "generate-download-url"
    /\ LET name == req[r].filename.val
       IN  \/ \E msg \in SignMessages : SignFailed(r, msg, "Failed to generate download URL")
           \/ \E now \in 0..MaxClock :
                 /\ ReadClock(r, now)
                 /\ Logged(r, <<"signOk">>)
                 /\ Goto(r, "done")
                 /\ Send(r, DownloadUrlOk(PresignedUrl("GetObject", name, now), name))
                 /\ UNCHANGED thrown
    /\ UNCHANGED <<env, req, disk>>

\* variant: the catch block answers without deleting the TemporaryFile
UploadCatchNoCleanup(msg, exists, unlinkOk) ==
    [exists |-> exists,
     events |-> <<>>,
     thrown |-> <<msg>>,
     response |-> ServerError(msg, "Upload failed")]

\* variant: a failed cleanup replaces the error that is reported
UploadCatchMasked(msg, exists, unlinkOk) ==
    [exists |-> exists /\ ~unlinkOk,
     events |-> <<"cleanupExists">> \o
                (IF exists
                 THEN <<"cleanupUnlink">> \o (IF unlinkOk THEN <<>> ELSE <<"cleanupUnlinkErr">>)
                 ELSE <<>>),
     thrown |-> <<msg>> \o (IF exists /\ ~unlinkOk THEN <<UnlinkMessage>> ELSE <<>>),
     response |-> ServerError(IF exists /\ ~unlinkOk THEN UnlinkMessage ELSE msg, "Upload failed")]

\* catch (err) of /upload: the cleanup and the failure response.  exists
\* tells whether the TemporaryFile is on disk when the block is entered,
\* unlinkOk whether the block's unlinkSync succeeds.
UploadCatch(msg, exists, unlinkOk) ==
    [exists |-> exists /\ ~unlinkOk,
     events |-> <<"cleanupExists">> \o
                (IF exists
                 THEN <<"cleanupUnlink">> \o (IF unlinkOk THEN <<>> ELSE <<"cleanupUnlinkErr">>)
                 ELSE <<>>),
     thrown |-> <<msg>> \o (IF exists /\ ~unlinkOk THEN <<UnlinkMessage>> ELSE <<>>),
     response |-> ServerError(msg, "Upload failed")]

\* variant: the result of existsSync is ignored
UploadTryNoCheck(exists, readOk) ==
    IF ~readOk THEN [events |-> <<"exists">> \o (IF exists THEN <<>> ELSE <<"notFound">>) \o <<"read", "readErr">>,
                     threw |-> TRUE, msg |-> ReadMessage]
    ELSE [events |-> <<"exists">> \o (IF exists THEN <<>> ELSE <<"notFound">>) \o <<"read", "put">>,
          threw |-> FALSE, msg |-> ""]

\* the try block of /upload up to the await: existence check and read
UploadTry(exists, readOk) ==
    IF ~exists THEN [events |-> <<"exists", "notFound">>, threw |-> TRUE, msg |-> NotFoundMessage]
    ELSE IF ~readOk THEN [events |-> <<"exists", "read", "readErr">>, threw |-> TRUE, msg |-> ReadMessage]
    ELSE [events |-> <<"exists", "read", "put">>, threw |-> FALSE, msg |-> ""]

\* what follows a failed attempt of the try block
Caught(r, before, msg, exists, unlinkOk) ==
    LET c == UploadCatch(msg, exists, unlinkOk)
    IN  /\ disk' = IF c.exists THEN disk \cup {r} ELSE disk \ {r}
        /\ Logged(r, before \o c.events)
        /\ Threw(r, c.thrown)
        /\ Send(r, c.response)
        /\ Goto(r, "done")

\* app.post('/upload'), up to the await
Upload(r) ==
    /\ pc[r] = "received"
    /\ req[r].ep = "upload"
    /\ IF ~req[r].file.present
       THEN /\ Send(r, BadRequest("No file uploaded"))
            /\ Goto(r, "done")
            /\ UNCHANGED <<disk, log, thrown>>
       ELSE \E readOk, unlinkOk \in BOOLEAN :
               LET t == UploadTry(r \in disk, readOk)
               IN  IF t.threw
                   THEN Caught(r, t.events, t.msg, r \in disk, unlinkOk)
                   ELSE /\ Logged(r, t.events)
                        /\ Goto(r, "putting")
                        /\ UNCHANGED <<disk, thrown, resps>>
    /\ UNCHANGED <<env, clock, req, signed>>

\* the try block of /upload after a put that succeeded: unlinkSync, the
\* public URL, the success response
UploadAfterPut(r, unlinkOk, cleanupOk) ==
    LET name == req[r].file.originalname
    IN  IF ~unlinkOk
        THEN Caught(r, <<"putOk", "unlink", "unlinkErr">>, UnlinkMessage, TRUE, cleanupOk)
        ELSE IF EncodeThrows(name)
        THEN Caught(r, <<"putOk", "unlink">>, URIErrorMessage, FALSE, cleanupOk)
        ELSE /\ disk' = disk \ {r}
             /\ Logged(r, <<"putOk", "unlink", "respond">>)
             /\ Send(r, UploadOk(PublicUrl(env, name)))
             /\ Goto(r, "done")
             /\ UNCHANGED thrown

\* app.post('/upload'), from the await on
UploadResume(r) ==
    /\ pc[r] = "putting"
    /\ \E unlinkOk, cleanupOk \in BOOLEAN :
          \/ UploadAfterPut(r, unlinkOk, cleanupOk)
          \/ \E msg \in PutMessages : Caught(r, <<"putErr">>, msg, r \in disk, cleanupOk)
    /\ UNCHANGED <<env, clock, req, signed>>

Next ==
    \/ \E r \in Reqs : ReceiveJson(r)
    \/ \E r \in Reqs : ReceiveMultipart(r)
    \/ \E r \in Reqs : GenerateUploadUrl(r)
    \/ \E r \in Reqs : GenerateUploadUrlResume(r)
    \/ \E r \in Reqs : GenerateDownloadUrl(r)
    \/ \E r \in Reqs : GenerateDownloadUrlResume(r)
    \/ \E r \in Reqs : Upload(r)
    \/ \E r \in Reqs : UploadResume(r)

Spec == Init /\ [][Next]_vars

\* ---- vocabulary of the properties ----

Done(r) == pc[r] = "done"
Answered(r) == resps[r] # <<>>
Answer(r) == resps[r][1]
Has(r, ev) == \E i \in DOMAIN log[r] : log[r][i] = ev
Count(r, ev) == Cardinality({i \in DOMAIN log[r] : log[r][i] = ev})
\* ev1 occurs, and before every occurrence of ev2
Precedes(r, ev1, ev2) ==
    \A j \in DOMAIN log[r] : log[r][j] = ev2 => \E i \in 1..(j - 1) : log[r][i] = ev1
IsUrlRequest(r) == req[r].ep \in {"generate-upload-url", "generate-download-url"}
IsUploadWithFile(r) == req[r].ep = "upload" /\ req[r].file.present
StoreCalls(r) == Count(r, "sign") + Count(r, "put")
Failure(response) == response.body.success = "false" /\ response.body.error # Absent

\* percent-encoding of the characters of the alphabet, as the spec writes
\* publicUrl: {base}/{percentEncode(filename)}
Pct(c) == IF c = " " THEN "%20" ELSE IF c = "/" THEN "%2F" ELSE c
ExpectedPublicUrl(name) ==
    <<IF env = "" THEN DefaultPublicUrl ELSE env, "/">> \o [i \in 1..Len(name) |-> Pct(name[i])]
WellFormed(name) == \A i \in 1..Len(name) : name[i] # LoneSurrogate

\* ---- C1 ----
\* C1 as stated: once /upload has answered a request that carries a file,
\* the request's TemporaryFile is not on disk.
C1_FileGoneAtResponse ==
    \A r \in Reqs : IsUploadWithFile(r) /\ Answered(r) => r \notin disk

\* C1 as amended: once /upload has answered a request that carries a file,
\* the TemporaryFile is not on disk unless the last attempt to delete it
\* threw; and whenever the file was found by the existence check, a delete
\* was attempted before the response.
C1_FileGoneUnlessUnlinkThrew ==
    \A r \in Reqs : IsUploadWithFile(r) /\ Answered(r) =>
        /\ r \in disk => Has(r, "cleanupUnlinkErr")
        /\ Has(r, "read") => Has(r, "unlink") \/ Has(r, "cleanupUnlink")

C1_Witness ==
    \E r \in Reqs : /\ IsUploadWithFile(r) /\ Answered(r)
                    /\ Has(r, "putErr") /\ Has(r, "cleanupUnlink") /\ r \notin disk

\* ---- C2 ----
\* C2: the response of /upload is the one the put outcome alone determines:
\* after a put that succeeded the 200 success response, whether or not a
\* delete threw; after a put that failed the 500 of the put error.
C2_DeleteNeverChangesResponse ==
    \A r \in Reqs : IsUploadWithFile(r) /\ Answered(r) =>
        /\ Has(r, "putOk") /\ WellFormed(req[r].file.originalname) =>
              Answer(r) = UploadOk(ExpectedPublicUrl(req[r].file.originalname))
        /\ Has(r, "putErr") =>
              Answer(r) = ServerError(thrown[r][1], "Upload failed")

\* ---- C3 ----
\* C3: every 400 and every 500 response of the three endpoints carries
\* success:false and an error message.
C3_FailureBody ==
    \A r \in Reqs : \A i \in DOMAIN resps[r] :
        resps[r][i].status \in {400, 500} => Failure(resps[r][i])

\* ---- C4 ----
\* C4: on the two URL endpoints a request whose filename is missing or
\* empty is answered 400 and never reaches the signer, and the signer is
\* called only for a filename that is present and non-empty.
C4_NoSigningWithoutFilename ==
    \A r \in Reqs : IsUrlRequest(r) =>
        /\ (~req[r].filename.present \/ req[r].filename.val = <<>>) =>
              /\ ~Has(r, "sign")
              /\ Done(r) => Len(resps[r]) = 1 /\ Answer(r).status = 400
        /\ Has(r, "sign") => req[r].filename.present /\ req[r].filename.val # <<>>

C4_Witness ==
    \E r \in Reqs : /\ IsUrlRequest(r) /\ Done(r)
                    /\ req[r].filename.present /\ req[r].filename.val = <<>>
                    /\ Answer(r).status = 400

\* ---- C5 ----
\* C5 as stated: when the put fails, /upload answers 500 with success:false
\* and the message of the put error, also when the cleanup throws, and the
\* cleanup is attempted before the answer.
C5_PutErrorMessageReported ==
    \A r \in Reqs : IsUploadWithFile(r) /\ Has(r, "putErr") /\ Answered(r) =>
        /\ Answer(r).status = 500
        /\ Answer(r).body.success = "false"
        /\ Answer(r).body.error = thrown[r][1]
        /\ Has(r, "cleanupUnlink")

\* C5 as amended: the error reported is the message of the put error, or
\* the fixed text 'Upload failed' when that message is empty; never the
\* cleanup error.
C5_PutErrorReported ==
    \A r \in Reqs : IsUploadWithFile(r) /\ Has(r, "putErr") /\ Answered(r) =>
        /\ Answer(r).status = 500
        /\ Answer(r).body.success = "false"
        /\ Answer(r).body.error = (IF thrown[r][1] = "" THEN "Upload failed" ELSE thrown[r][1])
        /\ Answer(r).body.error # UnlinkMessage
        /\ Has(r, "cleanupUnlink")

C5_Witness ==
    \E r \in Reqs : /\ IsUploadWithFile(r) /\ Has(r, "putErr") /\ Answered(r)
                    /\ Has(r, "cleanupUnlinkErr")
                    /\ Answer(r).body.error = "put failed"

\* ---- C6 ----
SameNameUploadUrlPair(r1, r2) ==
    /\ r1 # r2
    /\ req[r1].ep = "generate-upload-url" /\ req[r2].ep = "generate-upload-url"
    /\ req[r1].filename = req[r2].filename
    /\ WellFormed(req[r1].filename.val)
    /\ Has(r1, "signOk") /\ Has(r2, "signOk")

C7_PublicUrlForEveryName ==
    \A r \in Reqs :
        /\ req[r].ep = "generate-upload-url" /\ Done(r)
        /\ req[r].filename.present /\ req[r].filename.val # <<>>
        /\ WellFormed(req[r].filename.val) => Has(r, "signOk")
        => /\ Answer(r).body.success = "true"
           /\ Answer(r).body.publicUrl = ExpectedPublicUrl(req[r].filename.val)
           /\ Answer(r).body.presignedUrl # Answer(r).body.publicUrl

\* C7 as amended: the same for every non-empty filename without a lone
\* surrogate; and a successful /upload of a file of that name answers the
\* identical string as video_url.
C7_PublicUrlForWellFormedName ==
    /\ \A r \in Reqs :
          req[r].ep = "generate-upload-url" /\ Has(r, "signOk")
            /\ WellFormed(req[r].filename.val) =>
              /\ Answer(r).status = 200
              /\ Answer(r).body.success = "true"
              /\ Answer(r).body.publicUrl = ExpectedPublicUrl(req[r].filename.val)
              /\ Answer(r).body.presignedUrl # Answer(r).body.publicUrl
    /\ \A r \in Reqs :
          IsUploadWithFile(r) /\ Answered(r) /\ Answer(r).status = 200 =>
              Answer(r).body.video_url = ExpectedPublicUrl(req[r].file.originalname)
    /\ \A r1, r2 \in Reqs :
          /\ req[r1].ep = "generate-upload-url" /\ Answered(r1) /\ Answer(r1).status = 200
          /\ IsUploadWithFile(r2) /\ Answered(r2) /\ Answer(r2).status = 200
          /\ req[r1].filename.val = req[r2].file.originalname
          => Answer(r2).body.video_url = Answer(r1).body.publicUrl

C7_Witness ==
    \E r1, r2 \in Reqs :
        /\ req[r1].ep = "generate-upload-url" /\ Answered(r1) /\ Answer(r1).status = 200
        /\ IsUploadWithFile(r2) /\ Answered(r2) /\ Answer(r2).status = 200
        /\ req[r1].filename.val = <<"a", " ", "b">>
        /\ req[r2].file.originalname = <<"a", " ", "b">>
        /\ Answer(r1).body.publicUrl = <<BaseUrl(env), "/", "a", "%20", "b">>

\* ---- C8 ----
\* C8: a request makes at most one call to the store, and once that call
\* has failed the request is answered 500 with the failure, with no
\* further call.
C8_NoRetry ==
    \A r \in Reqs :
        /\ StoreCalls(r) <= 1
        /\ Has(r, "signErr") \/ Has(r, "putErr") =>
              /\ Done(r) /\ Len(resps[r]) = 1
              /\ Answer(r).status = 500 /\ Answer(r).body.success = "false"
              /\ Answer(r).body.error \in {thrown[r][1], "Upload failed",
                     "Failed to generate presigned URL", "Failed to generate download URL"}

C8_Witness ==
    \E r1, r2 \in Reqs : /\ Has(r1, "signErr") /\ Done(r1)
                         /\ Has(r2, "putErr") /\ Done(r2)

\* ---- C9 ----
\* C9: in /upload the existence check precedes the read, the read the put,
\* the put the delete, the delete the success response; a file missing at
\* the check gives 500 without a put; a success response follows a put
\* that succeeded.
C9_UploadOrder ==
    \A r \in Reqs : req[r].ep = "upload" =>
        /\ Precedes(r, "exists", "read")
        /\ Precedes(r, "read", "put")
        /\ Precedes(r, "put", "unlink")
        /\ Precedes(r, "putOk", "unlink")
        /\ Precedes(r, "unlink", "respond")
        /\ Has(r, "notFound") => ~Has(r, "put") /\ Answered(r) /\ Answer(r).status = 500
        /\ Answered(r) /\ Answer(r).status = 200 => Has(r, "putOk") /\ Has(r, "respond")

C9_Witness ==
    \E r1, r2 \in Reqs : /\ Has(r1, "notFound") /\ Done(r1)
                         /\ Has(r2, "respond") /\ Done(r2)

\* ---- C10 ----
HandlerStep(r) ==
    \/ GenerateUploadUrl(r) \/ GenerateUploadUrlResume(r)
    \/ GenerateDownloadUrl(r) \/ GenerateDownloadUrlResume(r)
    \/ Upload(r) \/ UploadResume(r)

\* C10: a request is never answered twice; a handler that has finished has
\* answered exactly once, with 200, 400 or 500; and a handler that has not
\* finished can always take its next step.
C10_ExactlyOneResponse ==
    \A r \in Reqs :
        /\ Len(resps[r]) <= 1
        /\ Done(r) => Len(resps[r]) = 1 /\ Answer(r).status \in {200, 400, 500}
        /\ Answered(r) => Done(r)
        /\ pc[r] \in {"received", "signing", "putting"} => ENABLED HandlerStep(r)

C10_Witness ==
    \E r1, r2 \in Reqs :
        /\ Done(r1) /\ Has(r1, "cleanupUnlinkErr") /\ Len(resps[r1]) = 1
        /\ Done(r2) /\ Has(r2, "signErr") /\ Len(resps[r2]) = 1
====
